---- MODULE Spec2Model ----
(***************************************************************************)
(* Model of openstackclient/api/compute_v2.py (APIv2: find and the         *)
(* security-group calls) and openstackclient/volume/v2/volume_type.py (the *)
(* volume type commands).                                                  *)
(*                                                                         *)
(* Every action is one whole call of an API method or of a command: it     *)
(* draws its arguments and the behaviour of the remote service from small  *)
(* sets, logs every HTTP request the call issues (with the outcome the     *)
(* service gave it) in `requests`, leaves what the call returned or raised *)
(* in `ret`, and applies the request's effect to the remote state.         *)
(*                                                                         *)
(* Encoding of Python values: every scalar is a string; the tokens "None", *)
(* "0" and "False" stand for None, the integer 0 and False, so that        *)
(* Python's truth test is membership in Falsy.  A dict is a function with  *)
(* a set of strings as its domain.  An optional dict is a sequence of      *)
(* length 0 (None) or 1.                                                   *)
(***************************************************************************)
EXTENDS Integers, Sequences, FiniteSets, TLC

VARIABLES groups, vtypes, call, requests, ret, beforeGroups, beforeTypes

vars == <<groups, vtypes, call, requests, ret, beforeGroups, beforeTypes>>

\* Bounds of the model: resources the remote service holds at most.
MaxGroups == 2
MaxTypes == 2

\* The IDs the services hand out, in the order they list resources.
IdSeq == <<"1", "2", "3", "4">>

GroupIds == {IdSeq[i] : i \in 1..MaxGroups}

\* Names a resource can carry; "1" is also an ID.
Names == {"a", "1"}

\* What a caller may pass as "name or ID": IDs, names, and a string that is neither.
Idents == GroupIds \cup Names \cup {"zz"}

EmptyMap == [k \in {} |-> ""]

Falsy == {"None", "", "0", "False"}

Truthy(v) == v \notin Falsy

\* -------------------------------------------------------------------------
\* Exceptions and results

KsaNotFound == "keystoneauth1.NotFound"

KsaBadRequest == "keystoneauth1.BadRequest"

KsaServerError == "keystoneauth1.InternalServerError"

KsaForbidden == "keystoneauth1.Forbidden"

DomainNotFound == "osc_lib.exceptions.NotFound"

ManyFound == "RuntimeError"

Ok(v) == [kind |-> "ok", exc |-> "", msg |-> "", value |-> v]

Raise(e, m) == [kind |-> "raise", exc |-> e, msg |-> m, value |-> <<>>]

\* One logged HTTP request: the verb, the collection path, the path segment
\* appended to it ("" for the collection itself), the query parameters or the
\* JSON body, and how the service answered ("ok" or the exception raised).
Req(method, path, target, data, status) ==
    [method |-> method, path |-> path, target |-> target, data |-> data, status |-> status]

SecurityGroupsUrl == "/os-security-groups"

\* -------------------------------------------------------------------------
\* The remote compute service, as seen through _request / list / create / delete.
\* env.miss is the failure class the service uses for an unknown path segment
\* (NotFound or BadRequest); env.f1, env.f2, env.f3 are the transport outcome of
\* the first, second and last request of a call ("none": the service answers).

Envs ==
    [miss : {KsaNotFound, KsaBadRequest},
     f1 : {"none", KsaServerError},
     f2 : {"none", KsaNotFound, KsaBadRequest, KsaServerError},
     f3 : {"none", KsaServerError}]

\* GET <path>/<value>: the record in its envelope, or a failure.
ServerGet(gs, value, env) ==
    IF env.f1 # "none" THEN [status |-> env.f1, body |-> EmptyMap]
    ELSE IF value \in DOMAIN gs
         THEN [status |-> "ok", body |-> [security_group |-> gs[value]]]
         ELSE [status |-> env.miss, body |-> EmptyMap]

\* The resources of gs in ID order.
RECURSIVE InOrder(_, _)
InOrder(gs, i) ==
    IF i > Len(IdSeq) THEN <<>>
    ELSE (IF IdSeq[i] \in DOMAIN gs THEN <<gs[IdSeq[i]]>> ELSE <<>>) \o InOrder(gs, i + 1)

StrToNat(s) == IF s = "1" THEN 1 ELSE IF s = "2" THEN 2 ELSE 0

Drop(s, n) == IF n >= Len(s) THEN <<>> ELSE SubSeq(s, n + 1, Len(s))

Take(s, n) == IF n >= Len(s) THEN s ELSE SubSeq(s, 1, n)

\* GET <path>?<params>: the service skips `offset` resources, returns at most
\* `limit` of them, and keeps one project's resources unless all_tenants is set
\* (the model's service holds one project's resources only).
ServerList(gs, params) ==
    LET all == InOrder(gs, 1)
        skipped == IF "offset" \in DOMAIN params THEN Drop(all, StrToNat(params["offset"])) ELSE all
    IN IF "limit" \in DOMAIN params THEN Take(skipped, StrToNat(params["limit"])) ELSE skipped

\* -------------------------------------------------------------------------
\* osc_lib BaseAPI.find_one(path, **kwargs): lists the collection, keeps the
\* items whose attributes equal kwargs, and requires exactly one.
find_one(gs, path, attr, value, env) ==
    LET req == Req("GET", path, "", EmptyMap, IF env.f2 = "none" THEN "ok" ELSE env.f2)
        items == InOrder(gs, 1)
        found == SelectSeq(items, LAMBDA o : attr \in DOMAIN o /\ o[attr] = value)
    IN IF env.f2 # "none" THEN [out |-> Raise(env.f2, "transport"), reqs |-> <<req>>]
       ELSE IF Len(found) = 0 THEN [out |-> Raise(KsaNotFound, "none found"), reqs |-> <<req>>]
       ELSE IF Len(found) > 1 THEN [out |-> Raise(ManyFound, "many found"), reqs |-> <<req>>]
       ELSE [out |-> Ok(<<found[1]>>), reqs |-> <<req>>]

\* "strip off the enclosing dict": the value under the first key.
Unwrap(body) == body[CHOOSE k \in DOMAIN body : TRUE]

\* find without the early return: the list query follows the direct GET always.
find_always_lists(gs, path, value, attr, env) ==
    LET direct == ServerGet(gs, value, env)
        req1 == Req("GET", path, value, EmptyMap, direct.status)
        one == find_one(gs, path, attr, value, env)
    IN IF direct.status = "ok"
       THEN [out |-> Ok(<<Unwrap(direct.body)>>), reqs |-> <<req1>> \o one.reqs]
       ELSE [out |-> one.out, reqs |-> <<req1>> \o one.reqs]

\* find as osc-lib had it before the override: only NotFound starts the fallback.
find_notfound_only(gs, path, value, attr, env) ==
    LET direct == ServerGet(gs, value, env)
        req1 == Req("GET", path, value, EmptyMap, direct.status)
    IN IF direct.status = "ok"
       THEN [out |-> Ok(<<Unwrap(direct.body)>>), reqs |-> <<req1>>]
       ELSE IF direct.status = KsaNotFound
       THEN LET one == find_one(gs, path, attr, value, env)
            IN IF one.out.kind = "raise" /\ one.out.exc = KsaNotFound
               THEN [out |-> Raise(DomainNotFound, value \o " not found"),
                     reqs |-> <<req1>> \o one.reqs]
               ELSE [out |-> one.out, reqs |-> <<req1>> \o one.reqs]
       ELSE [out |-> Raise(direct.status, "transport"), reqs |-> <<req1>>]

\* find whose message names the attribute searched instead of the value.
find_names_attr(gs, path, value, attr, env) ==
    LET direct == ServerGet(gs, value, env)
        req1 == Req("GET", path, value, EmptyMap, direct.status)
    IN IF direct.status = "ok"
       THEN [out |-> Ok(<<Unwrap(direct.body)>>), reqs |-> <<req1>>]
       ELSE IF direct.status \in {KsaNotFound, KsaBadRequest}
       THEN LET one == find_one(gs, path, attr, value, env)
            IN IF one.out.kind = "raise" /\ one.out.exc = KsaNotFound
               THEN [out |-> Raise(DomainNotFound, attr \o " not found"),
                     reqs |-> <<req1>> \o one.reqs]
               ELSE [out |-> one.out, reqs |-> <<req1>> \o one.reqs]
       ELSE [out |-> Raise(direct.status, "transport"), reqs |-> <<req1>>]

\* find that takes the first item of the filtered list instead of calling find_one.
find_first_match(gs, path, value, attr, env) ==
    LET direct == ServerGet(gs, value, env)
        req1 == Req("GET", path, value, EmptyMap, direct.status)
        req2 == Req("GET", path, "", EmptyMap, IF env.f2 = "none" THEN "ok" ELSE env.f2)
        found == SelectSeq(InOrder(gs, 1), LAMBDA o : attr \in DOMAIN o /\ o[attr] = value)
    IN IF direct.status = "ok"
       THEN [out |-> Ok(<<Unwrap(direct.body)>>), reqs |-> <<req1>>]
       ELSE IF direct.status \in {KsaNotFound, KsaBadRequest}
       THEN IF env.f2 = KsaNotFound \/ (env.f2 = "none" /\ Len(found) = 0)
            THEN [out |-> Raise(DomainNotFound, value \o " not found"), reqs |-> <<req1, req2>>]
            ELSE IF env.f2 # "none"
            THEN [out |-> Raise(env.f2, "transport"), reqs |-> <<req1, req2>>]
            ELSE [out |-> Ok(<<found[1]>>), reqs |-> <<req1, req2>>]
       ELSE [out |-> Raise(direct.status, "transport"), reqs |-> <<req1>>]

\* find with a bare except: every failure of the direct GET starts the fallback.
find_catches_all(gs, path, value, attr, env) ==
    LET direct == ServerGet(gs, value, env)
        req1 == Req("GET", path, value, EmptyMap, direct.status)
    IN IF direct.status = "ok"
       THEN [out |-> Ok(<<Unwrap(direct.body)>>), reqs |-> <<req1>>]
       ELSE LET one == find_one(gs, path, attr, value, env)
            IN IF one.out.kind = "raise" /\ one.out.exc = KsaNotFound
               THEN [out |-> Raise(DomainNotFound, value \o " not found"),
                     reqs |-> <<req1>> \o one.reqs]
               ELSE [out |-> one.out, reqs |-> <<req1>> \o one.reqs]

\* APIv2.find(path, value, attr): the result and the requests issued.
find(gs, path, value, attr, env) ==
    LET direct == ServerGet(gs, value, env)
        req1 == Req("GET", path, value, EmptyMap, direct.status)
    IN IF direct.status = "ok"
       THEN [out |-> Ok(<<Unwrap(direct.body)>>), reqs |-> <<req1>>]
       ELSE IF direct.status \in {KsaNotFound, KsaBadRequest}
       THEN LET one == find_one(gs, path, attr, value, env)
            IN IF one.out.kind = "raise" /\ one.out.exc = KsaNotFound
               THEN [out |-> Raise(DomainNotFound, value \o " not found"),
                     reqs |-> <<req1>> \o one.reqs]
               ELSE [out |-> one.out, reqs |-> <<req1>> \o one.reqs]
       ELSE [out |-> Raise(direct.status, "transport"), reqs |-> <<req1>>]

\* The service can only fail a request that is issued: the environments of a
\* call that resolves `value` first, with every component the call never
\* consults at its default (more: whether a request follows the resolution).
FindEnvs(gs, value, more) ==
    {e \in Envs :
        /\ (e.f1 # "none" \/ value \in DOMAIN gs) => (e.miss = KsaNotFound /\ e.f2 = "none")
        /\ (~more \/ find(gs, SecurityGroupsUrl, value, "name", e).out.kind = "raise")
              => e.f3 = "none"}

\* The environments of a call that issues one request, its first.
FirstOnlyEnvs == {e \in Envs : e.miss = KsaNotFound /\ e.f2 = "none" /\ e.f3 = "none"}

\* The environments of a call that issues one request, its last.
LastOnlyEnvs == {e \in Envs : e.miss = KsaNotFound /\ e.f1 = "none" /\ e.f2 = "none"}

\* -------------------------------------------------------------------------
\* Arguments the callers draw

Descriptions == {"d"}

\* **params of security_group_set: any dict over these keys, each given the
\* value "1" (a name for `name`, another group's ID for `id`).
PKeys == {"id", "name", "bogus"}

PValues == {"1"}

ParamDicts == UNION {[S -> PValues] : S \in SUBSET PKeys}

Limits == {"None", "0", "1"}

Markers == {"None", "", "1"}

SearchOpts == {<<>>, <<EmptyMap>>, <<[all_tenants |-> "True"]>>, <<[all_tenants |-> "False"]>>}

Put(m, k, v) == [x \in DOMAIN m \cup {k} |-> IF x = k THEN v ELSE m[x]]

\* The lowest ID the service has not handed out.
FreshId(gs, ids) == IdSeq[CHOOSE i \in 1..Len(IdSeq) :
                            /\ IdSeq[i] \in ids \ DOMAIN gs
                            /\ \A j \in 1..(i - 1) : IdSeq[j] \notin ids \ DOMAIN gs]

Without(gs, id) == [i \in DOMAIN gs \ {id} |-> gs[i]]

\* -------------------------------------------------------------------------
\* The security-group calls of APIv2

\* APIv2.security_group_create: POST the envelope, return the created record.
security_group_create(name, description, env) ==
    LET params == [name |-> name, description |-> description]
        body == [security_group |-> params]
        full == DOMAIN groups = GroupIds
        status == IF env.f3 # "none" THEN env.f3 ELSE IF full THEN KsaForbidden ELSE "ok"
        id == FreshId(groups, GroupIds)
        created == [id |-> id, name |-> name, description |-> description]
    IN /\ call' = [op |-> "security_group_create", args |-> params, env |-> env]
       /\ requests' = <<Req("POST", SecurityGroupsUrl, "", body, status)>>
       /\ beforeGroups' = groups
       /\ IF status = "ok"
          THEN /\ groups' = Put(groups, id, created)
               /\ ret' = Ok(<<created>>)
          ELSE /\ groups' = groups
               /\ ret' = Raise(status, "transport")
       /\ UNCHANGED <<vtypes, beforeTypes>>

\* APIv2.security_group_delete: resolve, then DELETE the resolved ID.
security_group_delete(security_group, env) ==
    LET f == find(groups, SecurityGroupsUrl, security_group, "name", env)
        id == f.out.value[1]["id"]
        status == IF env.f3 # "none" THEN env.f3 ELSE "ok"
    IN /\ call' = [op |-> "security_group_delete", args |-> [security_group |-> security_group], env |-> env]
       /\ beforeGroups' = groups
       /\ IF f.out.kind = "raise"
          THEN /\ requests' = f.reqs
               /\ ret' = f.out
               /\ groups' = groups
          ELSE /\ requests' = f.reqs \o <<Req("DELETE", SecurityGroupsUrl, id, EmptyMap, status)>>
               /\ IF status = "ok"
                  THEN /\ groups' = Without(groups, id)
                       /\ ret' = Ok(<<>>)
                  ELSE /\ groups' = groups
                       /\ ret' = Raise(status, "transport")
       /\ UNCHANGED <<vtypes, beforeTypes>>

\* APIv2.security_group_find: find with attr='name'.
security_group_find(security_group, env) ==
    LET f == find(groups, SecurityGroupsUrl, security_group, "name", env)
    IN /\ call' = [op |-> "security_group_find", args |-> [security_group |-> security_group], env |-> env]
       /\ beforeGroups' = groups
       /\ requests' = f.reqs
       /\ ret' = f.out
       /\ UNCHANGED <<groups, vtypes, beforeTypes>>

\* security_group_list with limit and marker applied only when no filter is given.
security_group_list_params_else(limit, marker, search_opts) ==
    LET opts == search_opts[1]
        withLimit == IF Truthy(limit) THEN Put(EmptyMap, "limit", limit) ELSE EmptyMap
    IN IF Len(search_opts) # 0
       THEN [k \in {x \in DOMAIN opts : Truthy(opts[x])} |-> opts[k]]
       ELSE IF Truthy(marker) THEN Put(withLimit, "offset", marker) ELSE withLimit

\* The query parameters security_group_list builds.
security_group_list_params(limit, marker, search_opts) ==
    LET opts == search_opts[1]
        filtered == IF Len(search_opts) # 0
                    THEN [k \in {x \in DOMAIN opts : Truthy(opts[x])} |-> opts[k]]
                    ELSE EmptyMap
        withLimit == IF Truthy(limit) THEN Put(filtered, "limit", limit) ELSE filtered
    IN IF Truthy(marker) THEN Put(withLimit, "offset", marker) ELSE withLimit

\* APIv2.security_group_list: GET the collection with the parameters built.
security_group_list(limit, marker, search_opts, env) ==
    LET params == security_group_list_params(limit, marker, search_opts)
        status == IF env.f1 # "none" THEN env.f1 ELSE "ok"
    IN /\ call' = [op |-> "security_group_list",
                   args |-> [limit |-> limit, marker |-> marker, search_opts |-> search_opts],
                   env |-> env]
       /\ beforeGroups' = groups
       /\ requests' = <<Req("GET", SecurityGroupsUrl, "", params, status)>>
       /\ ret' = IF status = "ok" THEN Ok(ServerList(groups, params)) ELSE Raise(status, "transport")
       /\ UNCHANGED <<groups, vtypes, beforeTypes>>

\* "Only set a value if it is already present".
MergeParams(record, params) ==
    [k \in DOMAIN record |-> IF k \in DOMAIN params THEN params[k] ELSE record[k]]

\* The path segment of the PUT: security_group['id'] after the merge loop.
PutTarget(record, params) == MergeParams(record, params)["id"]

\* APIv2.security_group_set: resolve, merge **params into the record, PUT it.
\* (**params is always a dict, so the "params is None" short-circuit never runs.)
security_group_set(security_group, params, env) ==
    LET f == find(groups, SecurityGroupsUrl, security_group, "name", env)
        fetched == f.out.value[1]
        merged == MergeParams(fetched, params)
        target == PutTarget(fetched, params)
        status == IF env.f3 # "none" THEN env.f3
                  ELSE IF target \in DOMAIN groups THEN "ok" ELSE KsaNotFound
        updated == [id |-> target, name |-> merged["name"], description |-> merged["description"]]
    IN /\ call' = [op |-> "security_group_set",
                   args |-> [security_group |-> security_group, params |-> params],
                   env |-> env]
       /\ beforeGroups' = groups
       /\ IF f.out.kind = "raise"
          THEN /\ requests' = f.reqs
               /\ ret' = f.out
               /\ groups' = groups
          ELSE /\ requests' = f.reqs \o
                      <<Req("PUT", SecurityGroupsUrl, target, [security_group |-> merged], status)>>
               /\ IF status = "ok"
                  THEN /\ groups' = [groups EXCEPT ![target] = updated]
                       /\ ret' = Ok(<<updated>>)
                  ELSE /\ groups' = groups
                       /\ ret' = Raise(status, "transport")
       /\ UNCHANGED <<vtypes, beforeTypes>>

\* -------------------------------------------------------------------------

Init ==
    /\ groups = EmptyMap
    /\ vtypes = EmptyMap
    /\ call = [op |-> "init", args |-> EmptyMap, env |-> EmptyMap]
    /\ requests = <<>>
    /\ ret = Ok(<<>>)
    /\ beforeGroups = EmptyMap
    /\ beforeTypes = EmptyMap

SecurityGroupCreate ==
    \E n \in Names, d \in Descriptions, env \in LastOnlyEnvs : security_group_create(n, d, env)

SecurityGroupDelete ==
    \E sg \in Idents : \E env \in FindEnvs(groups, sg, TRUE) : security_group_delete(sg, env)

SecurityGroupFind ==
    \E sg \in Idents : \E env \in FindEnvs(groups, sg, FALSE) : security_group_find(sg, env)

SecurityGroupList ==
    \E l \in Limits, m \in Markers, so \in SearchOpts, env \in FirstOnlyEnvs :
        security_group_list(l, m, so, env)

SecurityGroupSet ==
    \E sg \in Idents, p \in ParamDicts : \E env \in FindEnvs(groups, sg, TRUE) :
        security_group_set(sg, p, env)

Next ==
    \/ SecurityGroupCreate
    \/ SecurityGroupDelete
    \/ SecurityGroupFind
    \/ SecurityGroupList
    \/ SecurityGroupSet

Spec == Init /\ [][Next]_vars

\* -------------------------------------------------------------------------
\* The volume service behind volume_client.volume_types (one project's types;
\* the service keeps type names unique, and the records it reports hold id,
\* name, description and extra_specs), and the volume type commands.
\* `requests` logs the manager calls a command makes: get, find, create,
\* update, delete, list, set_keys, unset_keys.

TypeIds == {IdSeq[i] : i \in 1..MaxTypes}

TypeNames == {"gold", "1"}

TypeIdents == TypeIds \cup TypeNames \cup {"zz"}

TypesUrl == "/types"

KsaConflict == "keystoneauth1.Conflict"

CommandNotFound == "NotFound"

NoUniqueMatch == "NoUniqueMatch"

ParserError == "argparse.ArgumentError"

\* utils.format_dict: "key='value'" for every key, in key order, comma-separated.
format_dict(d) ==
    LET item(k) == k \o "='" \o d[k] \o "'"
    IN IF DOMAIN d = {} THEN ""
       ELSE IF DOMAIN d = {"k"} THEN item("k")
       ELSE IF DOMAIN d = {"j"} THEN item("j")
       ELSE item("j") \o ", " \o item("k")

\* utils.find_resource(manager, name_or_id): get by ID, else find by name;
\* fails, naming the identifier, when nothing or more than one thing matches.
find_resource(ts, name_or_id) ==
    LET byName == {i \in DOMAIN ts : ts[i]["name"] = name_or_id}
        get(status) == Req("get", TypesUrl, name_or_id, EmptyMap, status)
        search(status) == Req("find", TypesUrl, "", [name |-> name_or_id], status)
    IN IF name_or_id \in DOMAIN ts
       THEN [out |-> Ok(<<ts[name_or_id]>>), reqs |-> <<get("ok")>>]
       ELSE IF byName = {}
       THEN [out |-> Raise(CommandNotFound, name_or_id),
             reqs |-> <<get(KsaNotFound), search(KsaNotFound)>>]
       ELSE IF Cardinality(byName) > 1
       THEN [out |-> Raise(NoUniqueMatch, name_or_id),
             reqs |-> <<get(KsaNotFound), search(NoUniqueMatch)>>]
       ELSE [out |-> Ok(<<ts[CHOOSE i \in byName : TRUE]>>),
             reqs |-> <<get(KsaNotFound), search("ok")>>]

NameTaken(ts, name, except) == \E i \in DOMAIN ts \ {except} : ts[i]["name"] = name

\* What a command returns to the display layer: zip(*sorted(_info.items())).
SortedItems(info) ==
    LET keys == SelectSeq(<<"description", "extra_specs", "id", "name", "properties">>,
                          LAMBDA k : k \in DOMAIN info)
    IN <<keys, [i \in 1..Len(keys) |-> info[keys[i]]]>>

Pop(info, key) == [k \in DOMAIN info \ {key} |-> info[k]]

\* Truth of an optional dict (None and {} are false).
TruthyDict(optional) == Len(optional) # 0 /\ DOMAIN optional[1] # {}

\* The keyword arguments CreateVolumeType adds for --public / --private.
CreateKwargs(public, private) ==
    LET withPublic == IF public THEN [is_public |-> "True"] ELSE EmptyMap
    IN IF private THEN Put(withPublic, "is_public", "False") ELSE withPublic

\* CreateVolumeType: the parser (--public and --private exclude each other),
\* then take_action.
CreateVolumeType(name, description, public, private, property, fault) ==
    LET kwargs == CreateKwargs(public, private)
        sent == Put(Put(kwargs, "name", name), "description", description)
        full == DOMAIN vtypes = TypeIds
        status == IF fault # "none" THEN fault
                  ELSE IF NameTaken(vtypes, name, "") THEN KsaConflict
                  ELSE IF full THEN KsaForbidden ELSE "ok"
        id == FreshId(vtypes, TypeIds)
        created == [id |-> id, name |-> name, description |-> description,
                    extra_specs |-> EmptyMap]
        createReq == Req("create", TypesUrl, "", sent, status)
        info == Pop(created, "extra_specs")
    IN /\ call' = [op |-> "CreateVolumeType",
                   args |-> [name |-> name, description |-> description, public |-> public,
                             private |-> private, property |-> property],
                   env |-> [f3 |-> fault]]
       /\ beforeTypes' = vtypes
       /\ IF public /\ private
          THEN /\ requests' = <<>>
               /\ ret' = Raise(ParserError, "--private: not allowed with argument --public")
               /\ vtypes' = vtypes
          ELSE IF status # "ok"
          THEN /\ requests' = <<createReq>>
               /\ ret' = Raise(status, "transport")
               /\ vtypes' = vtypes
          ELSE IF TruthyDict(property)
          THEN /\ requests' = <<createReq, Req("set_keys", TypesUrl, id, property[1], "ok")>>
               /\ ret' = Ok(SortedItems(Put(info, "properties", format_dict(property[1]))))
               /\ vtypes' = Put(vtypes, id, [created EXCEPT !["extra_specs"] = property[1]])
          ELSE /\ requests' = <<createReq>>
               /\ ret' = Ok(SortedItems(info))
               /\ vtypes' = Put(vtypes, id, created)
       /\ UNCHANGED <<groups, beforeGroups>>

\* DeleteVolumeType deleting by the string the user gave.
DeleteTarget_as_given(volume_type, parsed_volume_type) == parsed_volume_type

\* The ID DeleteVolumeType hands to volume_types.delete.
DeleteTarget(volume_type, parsed_volume_type) == volume_type["id"]

\* DeleteVolumeType.take_action: resolve, then delete the resolved type.
DeleteVolumeType(parsed_volume_type, fault) ==
    LET r == find_resource(vtypes, parsed_volume_type)
        target == DeleteTarget(r.out.value[1], parsed_volume_type)
        status == IF fault # "none" THEN fault
                  ELSE IF target \in DOMAIN vtypes THEN "ok" ELSE KsaNotFound
    IN /\ call' = [op |-> "DeleteVolumeType", args |-> [volume_type |-> parsed_volume_type],
                   env |-> [f3 |-> fault]]
       /\ beforeTypes' = vtypes
       /\ IF r.out.kind = "raise"
          THEN /\ fault = "none"
               /\ requests' = r.reqs
               /\ ret' = r.out
               /\ vtypes' = vtypes
          ELSE /\ requests' = r.reqs \o <<Req("delete", TypesUrl, target, EmptyMap, status)>>
               /\ IF status = "ok"
                  THEN /\ vtypes' = Without(vtypes, target)
                       /\ ret' = Ok(<<>>)
                  ELSE /\ vtypes' = vtypes
                       /\ ret' = Raise(status, "transport")
       /\ UNCHANGED <<groups, beforeGroups>>

\* One displayed row of ListVolumeType: utils.get_item_properties(s, columns, formatters).
ListRow(s, long) ==
    IF long THEN <<s["id"], s["name"], s["description"], format_dict(s["extra_specs"])>>
    ELSE <<s["id"], s["name"]>>

\* ListVolumeType.take_action: the column headers and one row per type.
ListVolumeType(long) ==
    LET column_headers == IF long THEN <<"ID", "Name", "Description", "Properties">>
                          ELSE <<"ID", "Name">>
        data == InOrder(vtypes, 1)
    IN /\ call' = [op |-> "ListVolumeType", args |-> [long |-> long], env |-> [f3 |-> "none"]]
       /\ beforeTypes' = vtypes
       /\ requests' = <<Req("list", TypesUrl, "", EmptyMap, "ok")>>
       /\ ret' = Ok(<<column_headers, [i \in 1..Len(data) |-> ListRow(data[i], long)]>>)
       /\ UNCHANGED <<groups, vtypes, beforeGroups>>

\* The keyword arguments SetVolumeType hands to volume_types.update.
SetKwargs(name, description) ==
    LET withName == IF Truthy(name) THEN [name |-> name] ELSE EmptyMap
    IN IF Truthy(description) THEN Put(withName, "description", description) ELSE withName

\* SetVolumeType's no-op test without the property argument.
SetNoChanges_ignores_property(name, description, property) ==
    ~Truthy(name) /\ ~Truthy(description)

\* "No changes requested": none of the three arguments is true.
SetNoChanges(name, description, property) ==
    ~Truthy(name) /\ ~Truthy(description) /\ ~TruthyDict(property)

\* The manager calls SetVolumeType makes after resolving, in order:
\* update when kwargs is not empty, then set_keys when a property is given
\* (not reached when update raised).
SetCalls(ts, id, kwargs, property) ==
    LET conflict == "name" \in DOMAIN kwargs /\ NameTaken(ts, kwargs["name"], id)
        update == Req("update", TypesUrl, id, kwargs, IF conflict THEN KsaConflict ELSE "ok")
        set_keys == Req("set_keys", TypesUrl, id, property[1], "ok")
    IN (IF kwargs # EmptyMap THEN <<update>> ELSE <<>>)
       \o (IF TruthyDict(property) /\ ~(kwargs # EmptyMap /\ conflict) THEN <<set_keys>> ELSE <<>>)

\* The service's record of a type after the calls in `calls` that succeeded.
RECURSIVE Applied(_, _)
Applied(record, calls) ==
    IF calls = <<>> THEN record
    ELSE LET c == Head(calls)
             next == IF c.status # "ok" THEN record
                     ELSE IF c.method = "update"
                     THEN [k \in DOMAIN record |->
                              IF k \in DOMAIN c.data THEN c.data[k] ELSE record[k]]
                     ELSE IF c.method = "set_keys"
                     THEN [record EXCEPT !["extra_specs"] =
                              [k \in DOMAIN @ \cup DOMAIN c.data |->
                                  IF k \in DOMAIN c.data THEN c.data[k] ELSE @[k]]]
                     ELSE record
         IN Applied(next, Tail(calls))

\* SetVolumeType.take_action.
SetVolumeType(parsed_volume_type, name, description, property) ==
    LET r == find_resource(vtypes, parsed_volume_type)
        volume_type == r.out.value[1]
        id == volume_type["id"]
        calls == SetCalls(vtypes, id, SetKwargs(name, description), property)
        failed == calls # <<>> /\ calls[Len(calls)].status # "ok"
    IN /\ call' = [op |-> "SetVolumeType",
                   args |-> [volume_type |-> parsed_volume_type, name |-> name,
                             description |-> description, property |-> property],
                   env |-> [f3 |-> "none"]]
       /\ beforeTypes' = vtypes
       /\ IF r.out.kind = "raise"
          THEN /\ requests' = r.reqs
               /\ ret' = r.out
               /\ vtypes' = vtypes
          ELSE IF SetNoChanges(name, description, property)
          THEN /\ requests' = r.reqs
               /\ ret' = [Ok(<<>>) EXCEPT !.msg = "No changes requested\n"]
               /\ vtypes' = vtypes
          ELSE /\ requests' = r.reqs \o calls
               /\ ret' = IF failed THEN Raise(calls[Len(calls)].status, "transport") ELSE Ok(<<>>)
               /\ vtypes' = [vtypes EXCEPT ![id] = Applied(volume_type, calls)]
       /\ UNCHANGED <<groups, beforeGroups>>

\* ShowVolumeType.take_action: extra_specs leaves _info, formatted as properties.
ShowVolumeType(parsed_volume_type) ==
    LET r == find_resource(vtypes, parsed_volume_type)
        info == r.out.value[1]
        properties == format_dict(info["extra_specs"])
    IN /\ call' = [op |-> "ShowVolumeType", args |-> [volume_type |-> parsed_volume_type],
                   env |-> [f3 |-> "none"]]
       /\ beforeTypes' = vtypes
       /\ requests' = r.reqs
       /\ ret' = IF r.out.kind = "raise" THEN r.out
                 ELSE Ok(SortedItems(Put(Pop(info, "extra_specs"), "properties", properties)))
       /\ UNCHANGED <<groups, vtypes, beforeGroups>>

\* --property of UnsetVolumeType without required=True: the default [] is used.
UnsetParserAccepts_optional(given) == TRUE

\* The --property argument of UnsetVolumeType: required=True.
UnsetParserAccepts(given) == given

\* The keys of `keys` (a string: the sequence of its characters) that
\* unset_keys removes before the service fails one, and whether it failed one.
RECURSIVE UnsetKeys(_, _)
UnsetKeys(specs, keys) ==
    IF keys = <<>> THEN [specs |-> specs, status |-> "ok"]
    ELSE IF Head(keys) \in DOMAIN specs
    THEN UnsetKeys(Pop(specs, Head(keys)), Tail(keys))
    ELSE [specs |-> specs, status |-> KsaNotFound]

\* UnsetVolumeType: the parser, then take_action: resolve, then unset_keys.
UnsetVolumeType(parsed_volume_type, given, property) ==
    LET r == find_resource(vtypes, parsed_volume_type)
        volume_type == r.out.value[1]
        id == volume_type["id"]
        done == UnsetKeys(volume_type["extra_specs"], property)
    IN /\ call' = [op |-> "UnsetVolumeType",
                   args |-> [volume_type |-> parsed_volume_type, given |-> given,
                             property |-> property],
                   env |-> [f3 |-> "none"]]
       /\ beforeTypes' = vtypes
       /\ IF ~UnsetParserAccepts(given)
          THEN /\ requests' = <<>>
               /\ ret' = Raise(ParserError, "argument --property is required")
               /\ vtypes' = vtypes
          ELSE IF r.out.kind = "raise"
          THEN /\ requests' = r.reqs
               /\ ret' = r.out
               /\ vtypes' = vtypes
          ELSE /\ requests' = r.reqs \o <<Req("unset_keys", TypesUrl, id, property, done.status)>>
               /\ ret' = IF done.status = "ok" THEN Ok(<<>>) ELSE Raise(done.status, "transport")
               /\ vtypes' = [vtypes EXCEPT ![id]["extra_specs"] = done.specs]
       /\ UNCHANGED <<groups, beforeGroups>>

\* Arguments of the volume type commands.
TypeDescriptions == {"None", "d"}

Properties == {<<>>, <<EmptyMap>>, <<[k |-> "v"]>>}

SetNames == {"None", "", "gold"}

SetDescriptions == {"None", "d"}

\* --property of unset as the parser stores it: one string.
UnsetProperties == {<<>>, <<"k">>}

Faults == {"none", KsaServerError}

VolumeCreate ==
    \E n \in TypeNames, d \in TypeDescriptions, pub \in BOOLEAN, priv \in BOOLEAN,
       p \in Properties \ {<<EmptyMap>>}, f \in Faults :
        /\ (pub /\ priv) => (f = "none" /\ p = <<>> /\ d = "None")
        /\ CreateVolumeType(n, d, pub, priv, p, f)

VolumeDelete == \E v \in TypeIdents, f \in Faults : DeleteVolumeType(v, f)

VolumeList == \E long \in BOOLEAN : ListVolumeType(long)

VolumeSet ==
    \E v \in TypeIdents, n \in SetNames, d \in SetDescriptions, p \in Properties :
        SetVolumeType(v, n, d, p)

VolumeShow == \E v \in TypeIdents : ShowVolumeType(v)

VolumeUnset ==
    \E v \in TypeIdents, given \in BOOLEAN, p \in UnsetProperties :
        /\ ~given => p = <<>>
        /\ UnsetVolumeType(v, given, p)

NextVolume ==
    \/ VolumeCreate
    \/ VolumeDelete
    \/ VolumeList
    \/ VolumeSet
    \/ VolumeShow
    \/ VolumeUnset

SpecVolume == Init /\ [][NextVolume]_vars

\* -------------------------------------------------------------------------
\* Properties of APIv2.find, read off a finished security_group_find call.

FindDone == call.op = "security_group_find"

FindValue == call.args.security_group

\* The groups carrying the name searched, when the call started.
NameMatches == {i \in DOMAIN beforeGroups : beforeGroups[i]["name"] = FindValue}

DirectGet == Req("GET", SecurityGroupsUrl, FindValue, EmptyMap, requests[1].status)

FallbackList == Req("GET", SecurityGroupsUrl, "", EmptyMap, requests[2].status)

\* C1: when the identifier is the ID of an existing group and the service
\* answers the direct GET, find returns that group's record and the direct GET
\* is the only request of the call.
C1_DirectFetchOnly ==
    (FindDone /\ FindValue \in DOMAIN beforeGroups /\ call.env.f1 = "none")
        => /\ ret = Ok(<<beforeGroups[FindValue]>>)
           /\ Len(requests) = 1
           /\ requests[1] = DirectGet
           /\ requests[1].status = "ok"

C1_Witness ==
    /\ FindDone
    /\ FindValue \in DOMAIN beforeGroups
    /\ call.env.f1 = "none"
    /\ NameMatches # {}
    /\ ret.kind = "ok"

\* C2: when the identifier is no group's ID and the name of exactly one group,
\* and the service answers both requests (the direct GET with NotFound or
\* BadRequest), find issues the direct GET, then exactly one list query, and
\* returns the one group of that name.
C2_FallbackUniqueName ==
    (/\ FindDone
     /\ FindValue \notin DOMAIN beforeGroups
     /\ Cardinality(NameMatches) = 1
     /\ call.env.f1 = "none"
     /\ call.env.f2 = "none")
        => /\ Len(requests) = 2
           /\ requests[1] = DirectGet
           /\ requests[1].status \in {KsaNotFound, KsaBadRequest}
           /\ requests[2] = FallbackList
           /\ ret = Ok(<<beforeGroups[CHOOSE i \in NameMatches : TRUE]>>)

C2_Witness ==
    /\ FindDone
    /\ FindValue \notin DOMAIN beforeGroups
    /\ Cardinality(NameMatches) = 1
    /\ Cardinality(DOMAIN beforeGroups) = 2
    /\ call.env.miss = KsaBadRequest
    /\ ret.kind = "ok"

\* C3: when the identifier is neither an ID nor a name of any group and the
\* service answers both requests, find raises the domain NotFound whose
\* message is "<identifier> not found", and returns nothing.
C3_NotFoundNamesIdentifier ==
    (/\ FindDone
     /\ FindValue \notin DOMAIN beforeGroups
     /\ NameMatches = {}
     /\ call.env.f1 = "none"
     /\ call.env.f2 = "none")
        => /\ ret = Raise(DomainNotFound, FindValue \o " not found")
           /\ ret.value = <<>>

C3_Witness ==
    /\ FindDone
    /\ FindValue = "zz"
    /\ beforeGroups # EmptyMap
    /\ ret.kind = "raise"
    /\ ret.exc = DomainNotFound
    /\ ret.msg = "zz not found"

\* C4: when the identifier is no ID and the name of more than one group, find
\* raises instead of returning one of them; and every record find returns is
\* the record of one group: the group with that ID, or else the only group
\* of that name.
C4_AmbiguousNameFails ==
    FindDone =>
        /\ (/\ FindValue \notin DOMAIN beforeGroups
            /\ Cardinality(NameMatches) > 1
            /\ call.env.f1 = "none"
            /\ call.env.f2 = "none")
               => (ret.kind = "raise" /\ ret.exc # DomainNotFound /\ ret.value = <<>>)
        /\ ret.kind = "ok" =>
               /\ Len(ret.value) = 1
               /\ \/ (FindValue \in DOMAIN beforeGroups /\ ret.value[1] = beforeGroups[FindValue])
                  \/ /\ FindValue \notin DOMAIN beforeGroups
                     /\ Cardinality(NameMatches) = 1
                     /\ \A i \in NameMatches : ret.value[1] = beforeGroups[i]

C4_Witness ==
    /\ FindDone
    /\ FindValue \notin DOMAIN beforeGroups
    /\ Cardinality(NameMatches) > 1
    /\ call.env.f1 = "none"
    /\ call.env.f2 = "none"
    /\ ret.kind = "raise"

\* C6: find makes one or two requests.  A failure of the direct GET other than
\* NotFound or BadRequest reaches the caller as it was raised, with no
\* fallback query; the fallback query follows only a NotFound or BadRequest of
\* the direct GET; a failure of the fallback other than NotFound reaches the
\* caller as it was raised; and the domain NotFound is raised only where the
\* fallback raised NotFound.
C6_ErrorPropagation ==
    FindDone =>
        /\ Len(requests) \in {1, 2}
        /\ call.env.f1 # "none" => (Len(requests) = 1 /\ ret = Raise(call.env.f1, "transport"))
        /\ Len(requests) = 2 =>
               /\ requests[1].status \in {KsaNotFound, KsaBadRequest}
               /\ requests[2] = FallbackList
        /\ (Len(requests) = 2 /\ call.env.f2 \in {KsaBadRequest, KsaServerError})
               => ret = Raise(call.env.f2, "transport")
        /\ (Len(requests) = 2 /\ call.env.f2 = "none" /\ Cardinality(NameMatches) > 1)
               => ret = Raise(ManyFound, "many found")
        /\ (ret.kind = "raise" /\ ret.exc = DomainNotFound)
               => /\ Len(requests) = 2
                  /\ \/ call.env.f2 = KsaNotFound
                     \/ (call.env.f2 = "none" /\ NameMatches = {})

C6_Witness ==
    /\ FindDone
    /\ call.env.f1 = KsaServerError
    /\ FindValue \in Names \ DOMAIN groups
    /\ NameMatches # {}
    /\ ret = Raise(KsaServerError, "transport")

\* -------------------------------------------------------------------------
\* Properties of security_group_set and security_group_list.

SetDone == call.op = "security_group_set"

\* The record the call fetched: the group with that ID, else the one of that name.
Fetched ==
    IF call.args.security_group \in DOMAIN beforeGroups
    THEN beforeGroups[call.args.security_group]
    ELSE beforeGroups[CHOOSE i \in DOMAIN beforeGroups :
                          beforeGroups[i]["name"] = call.args.security_group]

PutIssued == SetDone /\ Len(requests) > 0 /\ requests[Len(requests)].method = "PUT"

\* C5: the body of the PUT is the fetched record R with every key of P that R
\* has overwritten by P's value, its keys are R's keys, and the PUT is sent to
\* the ID of R.
C5_MergeKeepsKeysAndTarget ==
    PutIssued =>
        LET put == requests[Len(requests)]
            P == call.args.params
        IN /\ DOMAIN put.data["security_group"] = DOMAIN Fetched
           /\ \A k \in DOMAIN Fetched :
                  put.data["security_group"][k] = IF k \in DOMAIN P THEN P[k] ELSE Fetched[k]
           /\ put.target = Fetched["id"]

ListDone == call.op = "security_group_list"

\* C9: a list call given an empty filter dict sends the request, and returns
\* the result, of the call with the same limit and marker and no filter.
C9_EmptyFilterIsNoFilter ==
    (ListDone /\ call.args.search_opts = <<EmptyMap>>)
        => LET unfiltered == security_group_list_params(call.args.limit, call.args.marker, <<>>)
           IN /\ requests = <<Req("GET", SecurityGroupsUrl, "", unfiltered, requests[1].status)>>
              /\ ret.kind = "ok" => ret = Ok(ServerList(groups, unfiltered))
              /\ ret.kind = "ok" <=> call.env.f1 = "none"

C9_Witness ==
    /\ ListDone
    /\ call.args.search_opts = <<EmptyMap>>
    /\ call.args.limit = "1"
    /\ call.args.marker = "1"
    /\ Cardinality(DOMAIN groups) = 2
    /\ ret.kind = "ok"
    /\ Len(ret.value) = 1

\* -------------------------------------------------------------------------
\* Properties of the volume type commands.

\* The type a command's <volume-type> argument resolves to, when it does.
TypeResolves ==
    \/ call.args.volume_type \in DOMAIN beforeTypes
    \/ Cardinality({i \in DOMAIN beforeTypes :
                        beforeTypes[i]["name"] = call.args.volume_type}) = 1

ResolvedType ==
    IF call.args.volume_type \in DOMAIN beforeTypes
    THEN beforeTypes[call.args.volume_type]
    ELSE beforeTypes[CHOOSE i \in DOMAIN beforeTypes :
                         beforeTypes[i]["name"] = call.args.volume_type]

\* The manager calls of a command that are not part of the resolution.
AfterResolution == SelectSeq(requests, LAMBDA q : q.method \notin {"get", "find"})

Methods(calls) == [i \in 1..Len(calls) |-> calls[i].method]

C8_AsStated ==
    (/\ call.op = "SetVolumeType"
     /\ TypeResolves
     /\ \A i \in 1..Len(AfterResolution) : AfterResolution[i].status = "ok")
        => LET n == call.args.name # "None"
               d == call.args.description # "None"
               p == Len(call.args.property) # 0
               m == Methods(AfterResolution)
           IN /\ (~n /\ ~d /\ ~p) =>
                     (m = <<>> /\ ret.msg = "No changes requested\n" /\ vtypes = beforeTypes)
              /\ (n \/ d \/ p) =>
                     /\ ret.msg # "No changes requested\n"
                     /\ m = (IF n \/ d THEN <<"update">> ELSE <<>>)
                            \o (IF p THEN <<"set_keys">> ELSE <<>>)

\* C8, amended: with "supplied" meaning that the option was given a non-empty
\* value.  When none of the three is supplied the command makes no call after
\* the resolution, returns with the message "No changes requested" and leaves
\* the types as they were.  Otherwise there is no such message; update is
\* called, once and first, on the resolved ID with exactly the supplied name
\* and description, iff one of those two is supplied; and set_keys is called,
\* once and last, with the property dict, iff a property is supplied and the
\* update, when there is one, did not fail.
C8_SetNoOpOrUpdates ==
    (call.op = "SetVolumeType" /\ TypeResolves)
        => LET n == Truthy(call.args.name)
               d == Truthy(call.args.description)
               p == TruthyDict(call.args.property)
               after == AfterResolution
               m == Methods(after)
               expectedKeys == (IF n THEN {"name"} ELSE {}) \cup (IF d THEN {"description"} ELSE {})
               updateFailed == (n \/ d) /\ Len(after) >= 1 /\ after[1].status # "ok"
           IN /\ (~n /\ ~d /\ ~p) =>
                     (m = <<>> /\ ret.msg = "No changes requested\n" /\ vtypes = beforeTypes)
              /\ (n \/ d \/ p) =>
                     /\ ret.msg # "No changes requested\n"
                     /\ m = (IF n \/ d THEN <<"update">> ELSE <<>>)
                            \o (IF p /\ ~updateFailed THEN <<"set_keys">> ELSE <<>>)
                     /\ (n \/ d) =>
                            /\ after[1].target = ResolvedType["id"]
                            /\ DOMAIN after[1].data = expectedKeys
                            /\ n => after[1].data["name"] = call.args.name
                            /\ d => after[1].data["description"] = call.args.description
                     /\ (p /\ ~updateFailed) =>
                            /\ after[Len(after)].target = ResolvedType["id"]
                            /\ after[Len(after)].data = call.args.property[1]

C8_Witness ==
    /\ call.op = "SetVolumeType"
    /\ TypeResolves
    /\ call.args.name = "gold"
    /\ call.args.description = "d"
    /\ TruthyDict(call.args.property)
    /\ Methods(AfterResolution) = <<"update", "set_keys">>
    /\ ret.kind = "ok"
    /\ vtypes # beforeTypes

\* C10: a delete request is made only when the argument resolved to a type; it
\* is then the one call after the resolution and is sent to the ID of the
\* resolved type.  When the argument resolves to nothing the command raises
\* and makes no delete request.
C10_DeleteAfterResolution ==
    call.op = "DeleteVolumeType" =>
        /\ TypeResolves =>
               /\ Methods(AfterResolution) = <<"delete">>
               /\ requests[Len(requests)] = AfterResolution[1]
               /\ AfterResolution[1].target = ResolvedType["id"]
               /\ \E i \in 1..(Len(requests) - 1) :
                      requests[i].method \in {"get", "find"} /\ requests[i].status = "ok"
               /\ ret.kind = "ok" => vtypes = Without(beforeTypes, ResolvedType["id"])
        /\ ~TypeResolves =>
               /\ AfterResolution = <<>>
               /\ ret.kind = "raise"
               /\ ret.msg = call.args.volume_type
               /\ vtypes = beforeTypes

C10_Witness ==
    /\ call.op = "DeleteVolumeType"
    /\ call.args.volume_type = "gold"
    /\ Cardinality(DOMAIN beforeTypes) = 2
    /\ ret.kind = "ok"
    /\ requests[Len(requests)].method = "delete"
    /\ requests[Len(requests)].target = "2"
    /\ "2" \notin DOMAIN vtypes

====
